---- MODULE Spec2Model ----
(***************************************************************************)
(* Model of tailr (src/tailr/src/lib.rs): the count-string parsers         *)
(* parse_num_without_regex and parse_num, the window selector              *)
(* get_start_index, and an invocation: get_args, then run over the files   *)
(* with count_lines_bytes, print_lines and print_bytes.                    *)
(*                                                                         *)
(* i64 is modelled as a two's-complement integer of Bits bits (TLC's own   *)
(* integers are 32 bits wide, so the 64-bit range itself cannot be         *)
(* enumerated); I64Min, I64Max and the wrap-around are all derived from    *)
(* Bits, so every boundary of the code (the magnitude 2^(Bits-1) that has  *)
(* no positive representation, total + i64::MIN, ...) is present.          *)
(* A string is a sequence of characters, a character a one-element string; *)
(* "u0663" stands for the single character U+0663 (ARABIC-INDIC DIGIT      *)
(* THREE), a decimal digit for the regex class \d but not for i64's parser.*)
(***************************************************************************)
EXTENDS Integers, Sequences, FiniteSets, TLC

\* ------------------------------------------------------------------ bounds
\* Width of the modelled i64.
Bits == 7
\* Longest input string handed to the parsers.
MaxLen == 3
\* Longest file content (in bytes) of a run over one file.
MaxBytes == 3
\* Most files of a run over several files.
MaxFiles == 2

\* ------------------------------------------------------------------ i64
RECURSIVE Pow2(_)
Pow2(n) == IF n = 0 THEN 1 ELSE 2 * Pow2(n - 1)

I64Min == -Pow2(Bits - 1)
I64Max == Pow2(Bits - 1) - 1
I64 == I64Min..I64Max

\* Two's-complement reduction of an integer to the i64 range.
WrapI64(x) == ((x - I64Min) % Pow2(Bits)) + I64Min

\* i64::wrapping_neg
wrapping_neg(n) == WrapI64(-n)

\* ------------------------------------------------------------------ values
\* enum TakeValue { PlusZero, TakeNum(i64) }
PlusZero == [tag |-> "PlusZero"]
TakeNum(n) == [tag |-> "TakeNum", num |-> n]
TakeValue == {PlusZero} \cup {TakeNum(n) : n \in I64}

\* Result<T, E>
Ok(v) == [tag |-> "Ok", value |-> v]
Err(e) == [tag |-> "Err", error |-> e]

\* Option<u64>, and the outcome of a call that panicked instead of returning.
None == [tag |-> "None"]
Some(k) == [tag |-> "Some", k |-> k]
Panic == [tag |-> "Panic"]

\* A call that has not been made yet.
Pending == [tag |-> "Pending"]

\* ------------------------------------------------------------------ strings
AsciiDigits == {"0", "1", "2", "3", "4", "5", "6", "7", "8", "9"}
Signs == {"+", "-"}
\* Characters the regex class \d accepts (Unicode decimal digits).
RegexDigits == AsciiDigits \cup {"u0663"}
Chars == AsciiDigits \cup Signs \cup {".", "f", "u0663"}

\* char::to_digit(10) of an ASCII digit
DigitVal(c) ==
  CASE c = "0" -> 0 [] c = "1" -> 1 [] c = "2" -> 2 [] c = "3" -> 3
    [] c = "4" -> 4 [] c = "5" -> 5 [] c = "6" -> 6 [] c = "7" -> 7
    [] c = "8" -> 8 [] c = "9" -> 9

\* str::starts_with(&['+', '-']) and str::starts_with('+')
starts_with(s, cs) == Len(s) > 0 /\ s[1] \in cs

\* The digit loop of i64::from_str with wrapping_mul / wrapping_add /
\* wrapping_sub for the checked operations.
RECURSIVE from_str_digits_wrapping(_, _, _)
from_str_digits_wrapping(digits, result, is_positive) ==
  IF digits = <<>> THEN Ok(result)
  ELSE IF Head(digits) \notin AsciiDigits THEN Err("InvalidDigit")
  ELSE LET mul == WrapI64(result * 10)
           acc == IF is_positive THEN WrapI64(mul + DigitVal(Head(digits)))
                                 ELSE WrapI64(mul - DigitVal(Head(digits)))
       IN from_str_digits_wrapping(Tail(digits), acc, is_positive)

\* The digit loop of i64::from_str: result = result * 10 (+|-) digit, every
\* step checked, so that i64::MIN is reachable on the negative side.
RECURSIVE from_str_digits(_, _, _)
from_str_digits(digits, result, is_positive) ==
  IF digits = <<>> THEN Ok(result)
  ELSE IF Head(digits) \notin AsciiDigits THEN Err("InvalidDigit")
  ELSE LET mul == result * 10
           acc == IF is_positive THEN mul + DigitVal(Head(digits))
                                 ELSE mul - DigitVal(Head(digits))
       IN IF mul \notin I64 THEN Err(IF is_positive THEN "PosOverflow" ELSE "NegOverflow")
          ELSE IF acc \notin I64 THEN Err(IF is_positive THEN "PosOverflow" ELSE "NegOverflow")
          ELSE from_str_digits(Tail(digits), acc, is_positive)

\* str::parse::<i64>()
parse_i64(src) ==
  IF src = <<>> THEN Err("Empty")
  ELSE IF Len(src) = 1 /\ src[1] \in Signs THEN Err("InvalidDigit")
  ELSE IF src[1] = "+" THEN from_str_digits(Tail(src), 0, TRUE)
  ELSE IF src[1] = "-" THEN from_str_digits(Tail(src), 0, FALSE)
  ELSE from_str_digits(src, 0, TRUE)

\* Result::map(i64::wrapping_neg)
map_wrapping_neg(res) == IF res.tag = "Ok" THEN Ok(wrapping_neg(res.value)) ELSE res

\* parse_num_without_regex with the `val.starts_with('+')` test of line 118 left out.
parse_num_without_regex_any_zero(val) ==
  LET res == IF starts_with(val, Signs) THEN parse_i64(val)
             ELSE map_wrapping_neg(parse_i64(val))
  IN IF res.tag = "Ok"
     THEN IF res.value = 0 THEN Ok(PlusZero)
          ELSE Ok(TakeNum(res.value))
     ELSE Err(val)

\* fn parse_num_without_regex(val: &str) -> MyResult<TakeValue>
parse_num_without_regex(val) ==
  LET res == IF starts_with(val, Signs) THEN parse_i64(val)
             ELSE map_wrapping_neg(parse_i64(val))
  IN IF res.tag = "Ok"
     THEN IF res.value = 0 /\ starts_with(val, {"+"}) THEN Ok(PlusZero)
          ELSE Ok(TakeNum(res.value))
     ELSE Err(val)

\* Regex ^([+-])?(\d+)$ : the captures, or None when the string does not match.
RECURSIVE AllIn(_, _)
AllIn(s, cs) == s = <<>> \/ (Head(s) \in cs /\ AllIn(Tail(s), cs))

num_re_captures(val) ==
  LET signed == starts_with(val, Signs)
      digits == IF signed THEN Tail(val) ELSE val
  IN IF digits # <<>> /\ AllIn(digits, RegexDigits)
     THEN [tag |-> "Some", sign |-> IF signed THEN <<val[1]>> ELSE <<>>, digits |-> digits]
     ELSE None

\* parse_num with "+" as the sign of an unsigned string (line 132).
parse_num_default_plus(val) ==
  LET caps == num_re_captures(val) IN
  IF caps.tag = "Some"
  THEN LET sign == IF caps.sign = <<>> THEN <<"+">> ELSE caps.sign
           num == sign \o caps.digits
           parsed == parse_i64(num)
       IN IF parsed.tag = "Ok"
          THEN IF sign = <<"+">> /\ parsed.value = 0 THEN Ok(PlusZero)
               ELSE Ok(TakeNum(parsed.value))
          ELSE Err(val)
  ELSE Err(val)

\* parse_num whose error of line 141 carries the formatted `num`, not `val`.
parse_num_err_num(val) ==
  LET caps == num_re_captures(val) IN
  IF caps.tag = "Some"
  THEN LET sign == IF caps.sign = <<>> THEN <<"-">> ELSE caps.sign
           num == sign \o caps.digits
           parsed == parse_i64(num)
       IN IF parsed.tag = "Ok"
          THEN IF sign = <<"+">> /\ parsed.value = 0 THEN Ok(PlusZero)
               ELSE Ok(TakeNum(parsed.value))
          ELSE Err(num)
  ELSE Err(val)

\* fn parse_num(val: &str) -> MyResult<TakeValue>
parse_num(val) ==
  LET caps == num_re_captures(val) IN
  IF caps.tag = "Some"
  THEN LET sign == IF caps.sign = <<>> THEN <<"-">> ELSE caps.sign
           num == sign \o caps.digits
           parsed == parse_i64(num)
       IN IF parsed.tag = "Ok"
          THEN IF sign = <<"+">> /\ parsed.value = 0 THEN Ok(PlusZero)
               ELSE Ok(TakeNum(parsed.value))
          ELSE Err(val)
  ELSE Err(val)

\* get_start_index without the clamp of line 216 (`start as u64` of a negative
\* start reinterprets the bits).
get_start_index_no_clamp(take_val, total, overflow_checks) ==
  IF take_val.tag = "PlusZero"
  THEN IF total > 0 THEN Some(0) ELSE None
  ELSE LET num == take_val.num IN
       IF num = 0 \/ total = 0 \/ num > total THEN None
       ELSE LET exact == IF num < 0 THEN total + num ELSE num - 1
                start == WrapI64(exact)
            IN IF exact \notin I64 /\ overflow_checks THEN Panic
               ELSE Some(IF start < 0 THEN start + Pow2(Bits) ELSE start)

\* get_start_index with `num >= &total` for `num > &total` (line 212).
get_start_index_ge_total(take_val, total, overflow_checks) ==
  IF take_val.tag = "PlusZero"
  THEN IF total > 0 THEN Some(0) ELSE None
  ELSE LET num == take_val.num IN
       IF num = 0 \/ total = 0 \/ num >= total THEN None
       ELSE LET exact == IF num < 0 THEN total + num ELSE num - 1
                start == WrapI64(exact)
            IN IF exact \notin I64 /\ overflow_checks THEN Panic
               ELSE Some(IF start < 0 THEN 0 ELSE start)

\* get_start_index with `total >= 0` for `total > 0` (line 205).
get_start_index_plus_zero_ge(take_val, total, overflow_checks) ==
  IF take_val.tag = "PlusZero"
  THEN IF total >= 0 THEN Some(0) ELSE None
  ELSE LET num == take_val.num IN
       IF num = 0 \/ total = 0 \/ num > total THEN None
       ELSE LET exact == IF num < 0 THEN total + num ELSE num - 1
                start == WrapI64(exact)
            IN IF exact \notin I64 /\ overflow_checks THEN Panic
               ELSE Some(IF start < 0 THEN 0 ELSE start)

\* get_start_index without the `num == &0` test of line 212.
get_start_index_no_zero_test(take_val, total, overflow_checks) ==
  IF take_val.tag = "PlusZero"
  THEN IF total > 0 THEN Some(0) ELSE None
  ELSE LET num == take_val.num IN
       IF total = 0 \/ num > total THEN None
       ELSE LET exact == IF num < 0 THEN total + num ELSE num - 1
                start == WrapI64(exact)
            IN IF exact \notin I64 /\ overflow_checks THEN Panic
               ELSE Some(IF start < 0 THEN 0 ELSE start)

\* get_start_index that negates a negative count and subtracts it
\* (`total - (-num)` for `total + num`, line 215): -i64::MIN is out of range.
get_start_index_negated(take_val, total, overflow_checks) ==
  IF take_val.tag = "PlusZero"
  THEN IF total > 0 THEN Some(0) ELSE None
  ELSE LET num == take_val.num IN
       IF num = 0 \/ total = 0 \/ num > total THEN None
       ELSE LET negated == -num
                exact == IF num < 0 THEN total - WrapI64(negated) ELSE num - 1
                start == WrapI64(exact)
            IN IF (negated \notin I64 \/ exact \notin I64) /\ overflow_checks THEN Panic
               ELSE Some(IF start < 0 THEN 0 ELSE start)

\* get_start_index without the `total == 0` test of line 212.
get_start_index_no_empty_test(take_val, total, overflow_checks) ==
  IF take_val.tag = "PlusZero"
  THEN IF total > 0 THEN Some(0) ELSE None
  ELSE LET num == take_val.num IN
       IF num = 0 \/ num > total THEN None
       ELSE LET exact == IF num < 0 THEN total + num ELSE num - 1
                start == WrapI64(exact)
            IN IF exact \notin I64 /\ overflow_checks THEN Panic
               ELSE Some(IF start < 0 THEN 0 ELSE start)

\* get_start_index without the `num > &total` test of line 212.
get_start_index_no_past_end(take_val, total, overflow_checks) ==
  IF take_val.tag = "PlusZero"
  THEN IF total > 0 THEN Some(0) ELSE None
  ELSE LET num == take_val.num IN
       IF num = 0 \/ total = 0 THEN None
       ELSE LET exact == IF num < 0 THEN total + num ELSE num - 1
                start == WrapI64(exact)
            IN IF exact \notin I64 /\ overflow_checks THEN Panic
               ELSE Some(IF start < 0 THEN 0 ELSE start)

\* get_start_index with `num` for `num - 1` as the start of a count from the
\* beginning (line 215).
get_start_index_one_based(take_val, total, overflow_checks) ==
  IF take_val.tag = "PlusZero"
  THEN IF total > 0 THEN Some(0) ELSE None
  ELSE LET num == take_val.num IN
       IF num = 0 \/ total = 0 \/ num > total THEN None
       ELSE LET exact == IF num < 0 THEN total + num ELSE num
                start == WrapI64(exact)
            IN IF exact \notin I64 /\ overflow_checks THEN Panic
               ELSE Some(IF start < 0 THEN 0 ELSE start)

\* get_start_index with `start.unsigned_abs()` for the clamp of line 216.
get_start_index_abs(take_val, total, overflow_checks) ==
  IF take_val.tag = "PlusZero"
  THEN IF total > 0 THEN Some(0) ELSE None
  ELSE LET num == take_val.num IN
       IF num = 0 \/ total = 0 \/ num > total THEN None
       ELSE LET exact == IF num < 0 THEN total + num ELSE num - 1
                start == WrapI64(exact)
            IN IF exact \notin I64 /\ overflow_checks THEN Panic
               ELSE Some(IF start < 0 THEN -start ELSE start)

\* fn get_start_index(take_val: &TakeValue, total: i64) -> Option<u64>
\* overflow_checks is the build's setting: with it `total + num` outside i64
\* panics, without it the sum wraps around.
get_start_index(take_val, total, overflow_checks) ==
  IF take_val.tag = "PlusZero"
  THEN IF total > 0 THEN Some(0) ELSE None
  ELSE LET num == take_val.num IN
       IF num = 0 \/ total = 0 \/ num > total THEN None
       ELSE LET exact == IF num < 0 THEN total + num ELSE num - 1
                start == WrapI64(exact)
            IN IF exact \notin I64 /\ overflow_checks THEN Panic
               ELSE Some(IF start < 0 THEN 0 ELSE start)

\* Whether the arithmetic of get_start_index leaves the i64 range.
start_overflows(take_val, total) ==
  /\ take_val.tag = "TakeNum"
  /\ ~(take_val.num = 0 \/ total = 0 \/ take_val.num > total)
  /\ (IF take_val.num < 0 THEN total + take_val.num ELSE take_val.num - 1) \notin I64

\* ------------------------------------------------------------------ state
VARIABLES
  val,         \* the count string given to the parsers
  lines_res,   \* result of parse_num_without_regex(val)
  bytes_res,   \* result of parse_num(val)
  take_val,    \* the TakeValue given to get_start_index
  total,       \* the total given to get_start_index
  start,       \* result of get_start_index(take_val, total)
  overflowed,  \* whether that call's arithmetic left the i64 range
  lines_arg,   \* command line: the value of -n ("10" when absent)
  bytes_arg,   \* command line: the value of -c, None when absent
  quiet_arg,   \* command line: whether -q is present
  files,       \* the FILE arguments in order, each with what the file system holds for it
  config,      \* the Config get_args returned, Pending before
  result,      \* what the invocation returned: Pending, Ok or Err
  pc,          \* position in get_args / run
  file_num,    \* run: zero-based index of the file being processed
  handles,     \* the open file handles: [file |-> index, owner |-> scope that owns it]
  out,         \* the output sink (stdout), a sequence of bytes and header lines
  err,         \* the error sink (stderr), a sequence of diagnostics
  written,     \* history: per file, the content bytes written to the output sink for it
  num_lines,   \* count_lines_bytes: num_lines
  num_bytes,   \* count_lines_bytes: num_bytes
  file_pos,    \* read position of the handle being read
  line_num,    \* print_lines: line_num
  scans        \* history: per file, the passes begun over it: [count |-> n, stream |-> n]

sel_vars == <<val, lines_res, bytes_res, take_val, total, start, overflowed>>
run_vars == <<lines_arg, bytes_arg, quiet_arg, files, config, result, pc, file_num,
              handles, out, err, written, num_lines, num_bytes, file_pos, line_num,
              scans>>
vars == <<sel_vars, run_vars>>

\* The run part of the state while only a parser or the selector is exercised.
RunIdle ==
  /\ lines_arg = <<>>
  /\ bytes_arg = None
  /\ quiet_arg = FALSE
  /\ files = <<>>
  /\ config = Pending
  /\ result = Pending
  /\ pc = "idle"
  /\ file_num = 0
  /\ handles = {}
  /\ out = <<>>
  /\ err = <<>>
  /\ written = <<>>
  /\ num_lines = 0
  /\ num_bytes = 0
  /\ file_pos = 0
  /\ line_num = 0
  /\ scans = <<>>

RECURSIVE StringsOfLen(_)
StringsOfLen(n) ==
  IF n = 0 THEN {<<>>}
  ELSE {Append(s, c) : s \in StringsOfLen(n - 1), c \in Chars}

Strings == UNION {StringsOfLen(n) : n \in 0..MaxLen}

\* ------------------------------------------------------------------ parsers
InitParse ==
  /\ val \in Strings
  /\ lines_res = Pending
  /\ bytes_res = Pending
  /\ take_val = PlusZero
  /\ total = 0
  /\ start = Pending
  /\ overflowed = FALSE
  /\ RunIdle

ParseNumWithoutRegex ==
  /\ lines_res = Pending
  /\ lines_res' = parse_num_without_regex(val)
  /\ UNCHANGED <<val, bytes_res, take_val, total, start, overflowed, run_vars>>

ParseNum ==
  /\ bytes_res = Pending
  /\ bytes_res' = parse_num(val)
  /\ UNCHANGED <<val, lines_res, take_val, total, start, overflowed, run_vars>>

NextParse == ParseNumWithoutRegex \/ ParseNum

SpecParse == InitParse /\ [][NextParse]_vars

\* ------------------------------------------------------------------ selector
InitSelect ==
  /\ val = <<>>
  /\ lines_res = Pending
  /\ bytes_res = Pending
  /\ take_val \in TakeValue
  /\ total \in I64
  /\ start = Pending
  /\ overflowed = FALSE
  /\ RunIdle

GetStartIndex ==
  /\ start = Pending
  /\ \E overflow_checks \in BOOLEAN :
       start' = get_start_index(take_val, total, overflow_checks)
  /\ overflowed' = start_overflows(take_val, total)
  /\ UNCHANGED <<val, lines_res, bytes_res, take_val, total, run_vars>>

NextSelect == GetStartIndex

SpecSelect == InitSelect /\ [][NextSelect]_vars

\* ------------------------------------------------------------------ run: inputs
\* The bytes of a file: a letter, the newline, and a byte that is not valid UTF-8.
Bytes == {"a", "\n", "xFF"}

RECURSIVE ContentsOfLen(_)
ContentsOfLen(n) ==
  IF n = 0 THEN {<<>>}
  ELSE {Append(s, b) : s \in ContentsOfLen(n - 1), b \in Bytes}

Contents == UNION {ContentsOfLen(n) : n \in 0..MaxBytes}

\* What the file system holds for a path:
\*   "file"    a regular file that reads without error,
\*   "faulty"  a regular file on a device where any read may fail,
\*   "missing" no such file (File::open fails),
\*   "dir"     a directory: File::open succeeds and every read fails where
\*             directories can be opened (Unix), File::open fails elsewhere.
File(kind, content) == [kind |-> kind, content |-> content]

OneFile ==
  {File(k, c) : k \in {"file", "faulty"}, c \in Contents}
    \cup {File("missing", <<>>), File("dir", <<>>)}

\* The files of the runs over several files.
SmallFiles ==
  {File("file", <<>>), File("file", <<"a", "\n">>), File("file", <<"a">>),
   File("faulty", <<"a", "\n">>), File("missing", <<>>), File("dir", <<>>)}

RECURSIVE ListsOfLen(_)
ListsOfLen(n) ==
  IF n = 0 THEN {<<>>}
  ELSE {Append(l, f) : l \in ListsOfLen(n - 1), f \in SmallFiles}

SeveralFiles == UNION {ListsOfLen(n) : n \in 2..MaxFiles}

\* The count strings of the runs: every count up to one past the longest file,
\* unsigned and with '+', an explicit '-', and two malformed strings.
DigitChar(n) == CHOOSE c \in AsciiDigits : DigitVal(c) = n

CountArgs ==
  {<<DigitChar(n)>> : n \in 0..(MaxBytes + 1)}
    \cup {<<"+", DigitChar(n)>> : n \in 0..(MaxBytes + 1)}
    \cup {<<"-", "1">>, <<"f">>, <<"+">>}

\* The count strings of the runs over several files: the last one, from the
\* second on, none, and a malformed string.
FewCountArgs == {<<"1">>, <<"+", "2">>, <<"0">>, <<"f">>}

\* The default_value of -n.
DefaultLines == <<"1", "0">>

\* ------------------------------------------------------------------ run: operators
\* A byte and a header line "==> <path> <==\n" in the output sink.
Byte(b) == [byte |-> b]
HeaderLine(path) == [header |-> path]
ToOut(bs) == [i \in 1..Len(bs) |-> Byte(bs[i])]

\* String::from_utf8_lossy, then print!: a byte that is not valid UTF-8 comes
\* out as U+FFFD, the three bytes EF BF BD.
RECURSIVE from_utf8_lossy(_)
from_utf8_lossy(bs) ==
  IF bs = <<>> THEN <<>>
  ELSE (IF Head(bs) = "xFF" THEN <<"xEF", "xBF", "xBD">> ELSE <<Head(bs)>>)
         \o from_utf8_lossy(Tail(bs))

\* read_until that leaves the delimiter out of the buffer (and in the stream).
RECURSIVE read_until_excl(_, _)
read_until_excl(content, pos) ==
  IF pos >= Len(content) THEN <<>>
  ELSE IF content[pos + 1] = "\n" THEN <<>>
  ELSE <<content[pos + 1]>> \o read_until_excl(content, pos + 1)

\* BufRead::read_until(b'\n', buf) at zero-based position pos: the bytes up to
\* and including the next newline, or up to the end of the stream.
RECURSIVE read_until(_, _)
read_until(content, pos) ==
  IF pos >= Len(content) THEN <<>>
  ELSE IF content[pos + 1] = "\n" THEN <<"\n">>
  ELSE <<content[pos + 1]>> \o read_until(content, pos + 1)

\* Seek to zero-based position pos, then Read::read_to_end.
read_to_end(content, pos) == SubSeq(content, pos + 1, Len(content))

\* print_lines with `line_num > start` for `line_num >= start` (line 175).
print_line_after_start(buf, lnum, start_k) ==
  IF lnum > start_k THEN from_utf8_lossy(buf) ELSE <<>>

\* print_lines, lines 175-177: what one turn of the loop prints.
print_line(buf, lnum, start_k) ==
  IF lnum >= start_k THEN from_utf8_lossy(buf) ELSE <<>>

\* print! / println! that puts the text in front of what the sink holds.
stdout_write_front(sink, items) == items \o sink

\* print! / println! on the output sink (lines 91, 176, 195).
stdout_write(sink, items) == sink \o items

\* `if bytes_read == 0 { break; }` that never breaks.
end_of_stream_never(bytes_read) == FALSE

\* The test `bytes_read == 0` of the two loops (lines 155 and 172).
end_of_stream(bytes_read) == bytes_read = 0

\* `get_start_index(..).unwrap_or_default()` for the `if let Some(start)`:
\* None streams from offset 0.
if_let_some_or_default(opt) ==
  CASE opt.tag = "Some" -> <<opt.k>>
    [] opt.tag = "None" -> <<0>>
    [] OTHER -> <<>>

\* `if let Some(start) = get_start_index(..)` (lines 167 and 190): the binding
\* of `start` if the pattern matches, as a sequence of zero or one offsets.
if_let_some(opt) == IF opt.tag = "Some" THEN <<opt.k>> ELSE <<>>

\* fn count_lines_bytes as a function of the content: the loop of lines
\* 153-161 from position pos on, as <<num_lines, num_bytes>>.
RECURSIVE count_lines_bytes(_, _)
count_lines_bytes(content, pos) ==
  LET buf == read_until(content, pos) IN
  IF end_of_stream(Len(buf)) THEN <<0, 0>>
  ELSE LET rest == count_lines_bytes(content, pos + Len(buf))
       IN <<rest[1] + 1, rest[2] + Len(buf)>>

\* The loop of print_lines (lines 170-180) from position pos and line line_no
\* on: everything it prints.
RECURSIVE print_lines_loop(_, _, _, _)
print_lines_loop(content, pos, line_no, start_k) ==
  LET buf == read_until(content, pos) IN
  IF end_of_stream(Len(buf)) THEN <<>>
  ELSE print_line(buf, line_no, start_k)
         \o print_lines_loop(content, pos + Len(buf), line_no + 1, start_k)

\* fn print_lines as a function of the content and the count (called at line
\* 102 with the total of count_lines_bytes): everything it prints for a file
\* that reads without error.
print_lines(content, num_lines_arg) ==
  LET total_lines == count_lines_bytes(content, 0)[1]
      bound == if_let_some(get_start_index(num_lines_arg, total_lines, TRUE))
  IN IF bound # <<>> THEN print_lines_loop(content, 0, 0, bound[1]) ELSE <<>>

\* header that writes the separating newline before the first header too
\* (`file_num >= 0` for `file_num > 0`, line 93).
header_always_newline(quiet, num_files, fnum) ==
  IF ~quiet /\ num_files > 1
  THEN (IF fnum >= 0 THEN <<Byte("\n")>> ELSE <<>>) \o <<HeaderLine(fnum + 1)>>
  ELSE <<>>

\* header with `||` for `&&` (line 90).
header_or(quiet, num_files, fnum) ==
  IF ~quiet \/ num_files > 1
  THEN (IF fnum > 0 THEN <<Byte("\n")>> ELSE <<>>) \o <<HeaderLine(fnum + 1)>>
  ELSE <<>>

\* The println! of lines 90-96.
header(quiet, num_files, fnum) ==
  IF ~quiet /\ num_files > 1
  THEN (IF fnum > 0 THEN <<Byte("\n")>> ELSE <<>>) \o <<HeaderLine(fnum + 1)>>
  ELSE <<>>

\* get_args that falls back to the default count on a malformed -n or -c
\* (unwrap_or for the `?` of lines 69 and 74).
get_args_lenient(largs, bargs, paths, quiet) ==
  LET l == parse_num_without_regex(largs)
      b == IF bargs = None THEN Ok(None) ELSE parse_num(bargs.k)
  IN Ok([files |-> paths,
         lines |-> IF l.tag = "Err" THEN TakeNum(-10) ELSE l.value,
         bytes |-> IF bargs = None THEN None
                   ELSE IF b.tag = "Err" THEN Some(TakeNum(-10)) ELSE Some(b.value),
         quiet |-> quiet])

\* pub fn get_args() -> MyResult<Config>, after clap has matched the arguments.
get_args(largs, bargs, paths, quiet) ==
  LET l == parse_num_without_regex(largs)
      b == IF bargs = None THEN Ok(None) ELSE parse_num(bargs.k)
  IN IF l.tag = "Err" THEN Err(<<"illegal line count -- ", l.error>>)
     ELSE IF b.tag = "Err" THEN Err(<<"illegal byte count -- ", b.error>>)
     ELSE Ok([files |-> paths,
              lines |-> l.value,
              bytes |-> IF bargs = None THEN None ELSE Some(b.value),
              quiet |-> quiet])

\* drop that releases nothing (a handle kept alive past its scope).
drop_nothing(hs, path, owner) == hs

\* The handles left when the scope `owner` of file `path` ends (drop).
drop(hs, path, owner) == hs \ {[file |-> path, owner |-> owner]}

\* The outcomes of File::open and of one read, by what the path holds.
open_outcomes(kind) ==
  CASE kind = "missing" -> {"Err"}
    [] kind = "dir" -> {"Ok", "Err"}
    [] OTHER -> {"Ok"}

read_outcomes(kind) ==
  CASE kind = "dir" -> {"Err"}
    [] kind = "faulty" -> {"Ok", "Err"}
    [] OTHER -> {"Ok"}

\* ------------------------------------------------------------------ run: actions
num_files == Len(files)
path == file_num + 1
cur == files[path]

InitRun ==
  /\ val = <<>>
  /\ lines_res = Pending
  /\ bytes_res = Pending
  /\ take_val = PlusZero
  /\ total = 0
  /\ start = Pending
  /\ overflowed = FALSE
  /\ \E arg \in CountArgs :
       \/ lines_arg = arg /\ bytes_arg = None
       \/ lines_arg = DefaultLines /\ bytes_arg = Some(arg)
  /\ quiet_arg \in BOOLEAN
  /\ files \in {<<f>> : f \in OneFile} \cup SeveralFiles
  /\ Len(files) > 1 => (lines_arg \in FewCountArgs \/ bytes_arg \in {Some(a) : a \in FewCountArgs})
  /\ config = Pending
  /\ result = Pending
  /\ pc = "get_args"
  /\ file_num = 0
  /\ handles = {}
  /\ out = <<>>
  /\ err = <<>>
  /\ written = [i \in 1..Len(files) |-> <<>>]
  /\ num_lines = 0
  /\ num_bytes = 0
  /\ file_pos = 0
  /\ line_num = 0
  /\ scans = [i \in 1..Len(files) |-> [count |-> 0, stream |-> 0]]

\* get_args, lines 65-82; a parse error ends the invocation.
GetArgs ==
  /\ pc = "get_args"
  /\ lines_res' = parse_num_without_regex(lines_arg)
  /\ bytes_res' = IF bytes_arg = None \/ lines_res'.tag = "Err" THEN Pending
                  ELSE parse_num(bytes_arg.k)
  /\ LET r == get_args(lines_arg, bytes_arg, [i \in 1..num_files |-> i], quiet_arg)
     IN IF r.tag = "Ok"
        THEN config' = r.value /\ result' = result /\ pc' = "open"
        ELSE config' = config /\ result' = r /\ pc' = "exit"
  /\ UNCHANGED <<val, take_val, total, start, overflowed, lines_arg, bytes_arg,
                 quiet_arg, files, file_num, handles, out, err, written,
                 num_lines, num_bytes, file_pos, line_num, scans>>

\* run, lines 86-88: File::open of the next file; a failure is reported to
\* the error sink and the loop goes on.
OpenFile ==
  /\ pc = "open"
  /\ file_num < num_files
  /\ \E outcome \in open_outcomes(cur.kind) :
       IF outcome = "Ok"
       THEN /\ handles' = handles \cup {[file |-> path, owner |-> "run"]}
            /\ pc' = "header"
            /\ UNCHANGED <<err, file_num>>
       ELSE /\ err' = Append(err, [path |-> path, error |-> "open"])
            /\ file_num' = file_num + 1
            /\ UNCHANGED <<handles, pc>>
  /\ UNCHANGED <<sel_vars, lines_arg, bytes_arg, quiet_arg, files, config, result,
                 out, written, num_lines, num_bytes, file_pos, line_num, scans>>

\* run, lines 90-96.
PrintHeader ==
  /\ pc = "header"
  /\ out' = stdout_write(out, header(config.quiet, num_files, file_num))
  /\ pc' = "count_open"
  /\ UNCHANGED <<sel_vars, lines_arg, bytes_arg, quiet_arg, files, config, result,
                 file_num, handles, err, written, num_lines, num_bytes, file_pos,
                 line_num, scans>>

\* count_lines_bytes, lines 149-152: a second handle on the same path.
CountOpen ==
  /\ pc = "count_open"
  /\ handles' = handles \cup {[file |-> path, owner |-> "count_lines_bytes"]}
  /\ num_lines' = 0
  /\ num_bytes' = 0
  /\ file_pos' = 0
  /\ scans' = [scans EXCEPT ![path].count = @ + 1]
  /\ pc' = "count_read"
  /\ UNCHANGED <<sel_vars, lines_arg, bytes_arg, quiet_arg, files, config, result,
                 file_num, out, err, written, line_num>>

\* A `?` on an I/O error inside run: run returns the error, every local is dropped.
IoError ==
  /\ result' = Err(<<"io", path>>)
  /\ handles' = {}
  /\ pc' = "exit"

\* count_lines_bytes, lines 153-163: one turn of the loop, and the return at
\* end of stream (line 97 takes the totals).
CountRead ==
  /\ pc = "count_read"
  /\ \E outcome \in read_outcomes(cur.kind) :
       IF outcome = "Err"
       THEN /\ IoError
            /\ UNCHANGED <<num_lines, num_bytes, file_pos>>
       ELSE LET buf == read_until(cur.content, file_pos) IN
            IF end_of_stream(Len(buf))
            THEN /\ handles' = drop(handles, path, "count_lines_bytes")
                 /\ pc' = "print"
                 /\ file_pos' = 0
                 /\ UNCHANGED <<result, num_lines, num_bytes>>
            ELSE /\ num_lines' = num_lines + 1
                 /\ num_bytes' = num_bytes + Len(buf)
                 /\ file_pos' = file_pos + Len(buf)
                 /\ UNCHANGED <<result, handles, pc>>
  /\ UNCHANGED <<sel_vars, lines_arg, bytes_arg, quiet_arg, files, config, file_num,
                 out, err, written, line_num, scans>>

\* print_bytes, lines 185-200 (called at line 100).
PrintBytes ==
  /\ pc = "print"
  /\ config.bytes # None
  /\ take_val' = config.bytes.k
  /\ total' = num_bytes
  /\ overflowed' = start_overflows(config.bytes.k, num_bytes)
  /\ \E overflow_checks \in BOOLEAN :
       start' = get_start_index(config.bytes.k, num_bytes, overflow_checks)
  /\ LET bound == if_let_some(start') IN
     IF bound # <<>>
     THEN /\ scans' = [scans EXCEPT ![path].stream = @ + 1]
          /\ \E outcome \in read_outcomes(cur.kind) :
               IF outcome = "Err"
               THEN IoError /\ UNCHANGED <<out, written, file_pos>>
               ELSE LET buffer == read_to_end(cur.content, bound[1])
                        text == from_utf8_lossy(buffer)
                    IN /\ out' = stdout_write(out, ToOut(text))
                       /\ written' = [written EXCEPT ![path] = @ \o text]
                       /\ file_pos' = Len(cur.content)
                       /\ pc' = "end_file"
                       /\ UNCHANGED <<result, handles>>
     ELSE /\ pc' = IF start'.tag = "Panic" THEN "panic" ELSE "end_file"
          /\ UNCHANGED <<result, handles, out, written, file_pos, scans>>
  /\ UNCHANGED <<val, lines_res, bytes_res, lines_arg, bytes_arg, quiet_arg, files,
                 config, file_num, err, num_lines, num_bytes, line_num>>

\* print_lines, lines 166-169 (called at line 102): the selector, and the
\* locals of the loop.
PrintLines ==
  /\ pc = "print"
  /\ config.bytes = None
  /\ take_val' = config.lines
  /\ total' = num_lines
  /\ overflowed' = start_overflows(config.lines, num_lines)
  /\ \E overflow_checks \in BOOLEAN :
       start' = get_start_index(config.lines, num_lines, overflow_checks)
  /\ line_num' = 0
  /\ IF if_let_some(start') # <<>>
     THEN /\ pc' = "print_read"
          /\ scans' = [scans EXCEPT ![path].stream = @ + 1]
     ELSE /\ pc' = IF start'.tag = "Panic" THEN "panic" ELSE "end_file"
          /\ UNCHANGED scans
  /\ UNCHANGED <<val, lines_res, bytes_res, lines_arg, bytes_arg, quiet_arg, files,
                 config, result, file_num, handles, out, err, written, num_lines,
                 num_bytes, file_pos>>

\* print_lines, lines 170-180: one turn of the loop.
PrintLinesRead ==
  /\ pc = "print_read"
  /\ \E outcome \in read_outcomes(cur.kind) :
       IF outcome = "Err"
       THEN /\ IoError
            /\ UNCHANGED <<out, written, file_pos, line_num>>
       ELSE LET buf == read_until(cur.content, file_pos)
                text == print_line(buf, line_num, if_let_some(start)[1])
            IN IF end_of_stream(Len(buf))
               THEN /\ pc' = "end_file"
                    /\ UNCHANGED <<result, handles, out, written, file_pos, line_num>>
               ELSE /\ out' = stdout_write(out, ToOut(text))
                    /\ written' = [written EXCEPT ![path] = @ \o text]
                    /\ file_pos' = file_pos + Len(buf)
                    /\ line_num' = line_num + 1
                    /\ UNCHANGED <<result, handles, pc>>
  /\ UNCHANGED <<sel_vars, lines_arg, bytes_arg, quiet_arg, files, config, file_num,
                 err, num_lines, num_bytes, scans>>

\* run, line 104: the end of the match arm drops `file`; next turn of the loop.
EndFile ==
  /\ pc = "end_file"
  /\ handles' = drop(handles, path, "run")
  /\ file_num' = file_num + 1
  /\ pc' = "open"
  /\ UNCHANGED <<sel_vars, lines_arg, bytes_arg, quiet_arg, files, config, result,
                 out, err, written, num_lines, num_bytes, file_pos, line_num, scans>>

\* run, line 107.
ReturnOk ==
  /\ pc = "open"
  /\ file_num = num_files
  /\ result' = Ok("unit")
  /\ pc' = "exit"
  /\ UNCHANGED <<sel_vars, lines_arg, bytes_arg, quiet_arg, files, config, file_num,
                 handles, out, err, written, num_lines, num_bytes, file_pos, line_num,
                 scans>>

Init == InitRun

Next ==
  \/ GetArgs
  \/ OpenFile
  \/ PrintHeader
  \/ CountOpen
  \/ CountRead
  \/ PrintBytes
  \/ PrintLines
  \/ PrintLinesRead
  \/ EndFile
  \/ ReturnOk

Spec == Init /\ [][Next]_vars

\* The invocations whose termination is examined: every file list of Init,
\* with the counts of FewCountArgs (a count from the end, a count from the
\* start, a zero count, a malformed count), in line mode and in byte mode.
InitFair ==
  /\ InitRun
  /\ lines_arg \in FewCountArgs \/ bytes_arg \in {Some(a) : a \in FewCountArgs}

\* The process is sequential and is scheduled: a step that can be taken is
\* eventually taken (a read on an open regular file returns).
SpecFair == InitFair /\ [][Next]_vars /\ WF_vars(Next)

\* ------------------------------------------------------------------ reference notions of the claims
\* The value of a string of ASCII digits, as a natural number of any size.
RECURSIVE DigitsValue(_)
DigitsValue(s) ==
  IF s = <<>> THEN 0
  ELSE 10 * DigitsValue(SubSeq(s, 1, Len(s) - 1)) + DigitVal(s[Len(s)])

\* The decimal digits of a natural number.
RECURSIVE NatDigits(_)
NatDigits(n) ==
  LET last == CHOOSE c \in AsciiDigits : DigitVal(c) = n % 10
  IN IF n < 10 THEN <<last>> ELSE Append(NatDigits(n \div 10), last)

\* The string without its leading sign, if it has one.
Unsigned(s) == IF starts_with(s, Signs) THEN Tail(s) ELSE s

\* [+-]?[0-9]+
MatchesGrammar(s) == Unsigned(s) # <<>> /\ AllIn(Unsigned(s), AsciiDigits)

Max(a, b) == IF a >= b THEN a ELSE b

\* ------------------------------------------------------------------ claims: the parsers

\* C1: for every digit string D whose value N is positive and in the i64 range,
\* "D" and "-D" parse to TakeNum(-N) and "+D" parses to TakeNum(N), with
\* parse_num_without_regex as well as with parse_num.
C1_SignConvention ==
  LET N == DigitsValue(Unsigned(val))
      expected == Ok(TakeNum(IF starts_with(val, {"+"}) THEN N ELSE -N))
  IN (MatchesGrammar(val) /\ N > 0 /\ N <= I64Max) =>
       /\ (lines_res # Pending => lines_res = expected)
       /\ (bytes_res # Pending => bytes_res = expected)

\* The bare string "10" has been parsed by both parsers, to TakeNum(-10).
C1_Witness ==
  /\ val = <<"1", "0">>
  /\ lines_res = Ok(TakeNum(-10))
  /\ bytes_res = Ok(TakeNum(-10))

\* C2: a parser yields PlusZero exactly when the string is a '+' followed by
\* digits of value zero; "0" and "-0" parse to TakeNum(0).
C2_PlusZeroIff ==
  LET plus_zero == /\ starts_with(val, {"+"})
                   /\ Len(val) > 1
                   /\ AllIn(Tail(val), {"0"})
  IN /\ (lines_res # Pending => ((lines_res = Ok(PlusZero)) <=> plus_zero))
     /\ (bytes_res # Pending => ((bytes_res = Ok(PlusZero)) <=> plus_zero))
     /\ (val \in {<<"0">>, <<"-", "0">>} =>
           /\ (lines_res # Pending => lines_res = Ok(TakeNum(0)))
           /\ (bytes_res # Pending => bytes_res = Ok(TakeNum(0))))

\* "+0" has been parsed by both parsers, to PlusZero.
C2_Witness ==
  /\ val = <<"+", "0">>
  /\ lines_res = Ok(PlusZero)
  /\ bytes_res = Ok(PlusZero)

\* C3: the unsigned magnitude 2^(Bits-1) (9223372036854775808 for 64 bits)
\* parses to TakeNum(i64::MIN), in line mode (parse_num_without_regex) as
\* well as in byte mode (parse_num).
C3_BoundaryMagnitude ==
  val = NatDigits(-I64Min) =>
    /\ (lines_res # Pending => lines_res = Ok(TakeNum(I64Min)))
    /\ (bytes_res # Pending => bytes_res = Ok(TakeNum(I64Min)))

\* C4: a string that does not match [+-]?[0-9]+ makes both parsers fail, the
\* error being the input string itself.
C4_RejectEcho ==
  ~MatchesGrammar(val) =>
    /\ (lines_res # Pending => lines_res = Err(val))
    /\ (bytes_res # Pending => bytes_res = Err(val))

\* A string with an embedded non-digit has been rejected by both parsers.
C4_Witness ==
  /\ val = <<"3", ".", "1">>
  /\ lines_res = Err(val)
  /\ bytes_res = Err(val)

\* C25: parse_num_without_regex and parse_num agree on every string: they fail
\* on the same strings with the same error, and return the same TakeValue on
\* every other string.
C25_ParsersAgree ==
  (lines_res # Pending /\ bytes_res # Pending) => lines_res = bytes_res

\* C28: a '+' or '-' followed by ASCII digits whose signed value is outside the
\* i64 range is rejected by both parsers with the string itself as the error;
\* the bare digits of i64::MAX parse to TakeNum(i64::MIN + 1) and '+' followed
\* by them to TakeNum(i64::MAX).
C28_OutOfRangeRejected ==
  LET N == DigitsValue(Unsigned(val))
      out_of_range == /\ MatchesGrammar(val)
                      /\ \/ starts_with(val, {"+"}) /\ N > I64Max
                         \/ starts_with(val, {"-"}) /\ N > -I64Min
      both(r) == /\ (lines_res # Pending => lines_res = r)
                 /\ (bytes_res # Pending => bytes_res = r)
  IN /\ (out_of_range => both(Err(val)))
     /\ (val = NatDigits(I64Max) => both(Ok(TakeNum(I64Min + 1))))
     /\ (val = <<"+">> \o NatDigits(I64Max) => both(Ok(TakeNum(I64Max))))

\* '-' followed by the digits of 2^(Bits-1) + 1 has been rejected by both
\* parsers, the error being that string.
C28_Witness ==
  /\ val = <<"-">> \o NatDigits(1 - I64Min)
  /\ lines_res = Err(val)
  /\ bytes_res = Err(val)

\* ------------------------------------------------------------------ claims: the selector

\* C5 as stated: for all n < 0 and total >= 0, get_start_index(TakeNum(n), total)
\* is Some(max(0, total + n)).
C5_Original ==
  (start # Pending /\ take_val.tag = "TakeNum" /\ take_val.num < 0 /\ total >= 0) =>
    start = Some(Max(0, total + take_val.num))

\* C5 amended: for all n < 0, get_start_index(TakeNum(n), total) is
\* Some(max(0, total + n)) for every total > 0, and None for total = 0.
C5_Amended ==
  (start # Pending /\ take_val.tag = "TakeNum" /\ take_val.num < 0 /\ total >= 0) =>
    start = IF total = 0 THEN None ELSE Some(Max(0, total + take_val.num))

\* The last 3 of 10 have been selected: start index 7.
C5_Witness ==
  /\ take_val = TakeNum(-3)
  /\ total = 10
  /\ start = Some(7)

\* C6: for all n > 0 and total >= 0, get_start_index(TakeNum(n), total) is None
\* when n > total and Some(n - 1) otherwise.
C6_PositiveCount ==
  (start # Pending /\ take_val.tag = "TakeNum" /\ take_val.num > 0 /\ total >= 0) =>
    start = IF take_val.num > total THEN None ELSE Some(take_val.num - 1)

\* +N with N = total has selected exactly the last element.
C6_Witness ==
  /\ take_val = TakeNum(10)
  /\ total = 10
  /\ start = Some(9)

\* C7: for all total >= 0, get_start_index(PlusZero, total) is None if and only
\* if total = 0, and Some(0) for every total > 0.
C7_PlusZero ==
  (start # Pending /\ take_val = PlusZero /\ total >= 0) =>
    /\ (start = None <=> total = 0)
    /\ (total > 0 => start = Some(0))

\* PlusZero over a non-empty stream has selected offset 0.
C7_Witness ==
  /\ take_val = PlusZero
  /\ total = 1
  /\ start = Some(0)

\* C8: for all total >= 0, get_start_index(TakeNum(0), total) is None.
C8_ZeroCount ==
  (start # Pending /\ take_val = TakeNum(0) /\ total >= 0) => start = None

\* A zero count over a non-empty stream has selected nothing.
C8_Witness ==
  /\ take_val = TakeNum(0)
  /\ total = I64Max
  /\ start = None

\* C9: get_start_index is total over all pairs of i64 inputs, negative totals
\* and n = i64::MIN included: no evaluation of total + n or n - 1 leaves the
\* i64 range, and every call returns None or Some(k).
C9_TotalOverI64 ==
  start # Pending => (start.tag \in {"None", "Some"} /\ ~overflowed)

\* C10: for every total > 0, get_start_index(TakeNum(i64::MIN), total) is
\* Some(0), and total + i64::MIN stays in the i64 range.
C10_MostNegative ==
  (start # Pending /\ take_val = TakeNum(I64Min) /\ total > 0) =>
    (start = Some(0) /\ ~overflowed)

\* The most negative count over the largest total has selected offset 0.
C10_Witness ==
  /\ take_val = TakeNum(I64Min)
  /\ total = I64Max
  /\ start = Some(0)
  /\ ~overflowed

\* C26: whenever get_start_index returns Some(k) for a total >= 0, the offset
\* lies inside the stream: 0 <= k <= total - 1.
C26_StartInsideStream ==
  (start # Pending /\ total >= 0 /\ start.tag = "Some") =>
    (0 <= start.k /\ start.k <= total - 1)

\* The largest count from the beginning over the largest total has selected
\* the last element.
C26_Witness ==
  /\ take_val = TakeNum(I64Max)
  /\ total = I64Max
  /\ start = Some(I64Max - 1)

\* C30: for every total >= 0, get_start_index(PlusZero, total) and
\* get_start_index(TakeNum(1), total) are the same: None for total = 0 and
\* Some(0) otherwise.
C30_PlusZeroIsPlusOne ==
  (start # Pending /\ take_val \in {PlusZero, TakeNum(1)} /\ total >= 0) =>
    start = IF total = 0 THEN None ELSE Some(0)

\* +1 over the largest total has selected offset 0.
C30_Witness ==
  /\ take_val = TakeNum(1)
  /\ total = I64Max
  /\ start = Some(0)

\* ------------------------------------------------------------------ reference notions of the claims about a run
RECURSIVE Flatten(_)
Flatten(ss) == IF ss = <<>> THEN <<>> ELSE Head(ss) \o Flatten(Tail(ss))

IsPrefix(a, b) == Len(a) <= Len(b) /\ SubSeq(b, 1, Len(a)) = a

Min(a, b) == IF a <= b THEN a ELSE b

\* The lines of a byte sequence, each with its terminator; a trailing
\* unterminated fragment is a line.
RECURSIVE RefLines(_)
RefLines(c) ==
  IF c = <<>> THEN <<>>
  ELSE LET ends == {i \in 1..Len(c) : c[i] = "\n"} \cup {Len(c)}
           nl == CHOOSE i \in ends : \A j \in ends : i <= j
       IN <<SubSeq(c, 1, nl)>> \o RefLines(SubSeq(c, nl + 1, Len(c)))

\* The last n elements of a sequence.
LastN(s, n) == SubSeq(s, Len(s) - n + 1, Len(s))

\* A regular file (one that File::open opens and that has content to read).
Regular(i) == files[i].kind \in {"file", "faulty"}

\* The processing of file i has run to its end.
FileDone(i) == i <= file_num \/ (i = path /\ pc = "end_file")

\* The header of file i is in the output sink.
Headed(i) == \E p \in 1..Len(out) : out[p] = HeaderLine(i)

\* A diagnostic naming file i is in the error sink.
Diagnosed(i) == \E p \in 1..Len(err) : err[p].path = i

\* An I/O error on a read has ended the run.
IoFailed == pc = "exit" /\ result.tag = "Err" /\ result.error[1] = "io"

\* File i has been opened by run (line 87 returned Ok).
Opened(i) ==
  /\ ~Diagnosed(i)
  /\ \/ i <= file_num
     \/ /\ i = path
        /\ \/ pc \in {"header", "count_open", "count_read", "print", "print_read",
                      "end_file", "panic"}
           \/ IoFailed

\* The output sink as the claims describe it: per file in list order, the
\* header (after a newline for every file but the first of the list) if it
\* has been written, then the content written for the file.
Section(i) ==
  (IF Headed(i)
   THEN (IF i > 1 THEN <<Byte("\n")>> ELSE <<>>) \o <<HeaderLine(i)>>
   ELSE <<>>) \o ToOut(written[i])

Sections == Flatten([i \in 1..num_files |-> Section(i)])

\* ------------------------------------------------------------------ claims: a run

\* C11 as stated: in line mode with Count(-k), k > 0, the output for a file of
\* T lines is exactly its last min(k, T) lines, terminators included, and no
\* earlier line is written.
C11_Original ==
  \A i \in 1..num_files :
    (/\ config # Pending
     /\ config.bytes = None
     /\ config.lines.tag = "TakeNum"
     /\ config.lines.num < 0
     /\ Regular(i))
    => LET ls == RefLines(files[i].content)
           expected == Flatten(LastN(ls, Min(-config.lines.num, Len(ls))))
       IN /\ IsPrefix(written[i], expected)
          /\ (FileDone(i) => written[i] = expected)

\* C11 amended: the output is the lossy UTF-8 decoding (the lines themselves
\* when they are valid UTF-8, U+FFFD for every invalid byte otherwise) of
\* exactly the last min(k, T) lines, in order, terminators included; no earlier
\* line is written.
C11_Amended ==
  \A i \in 1..num_files :
    (/\ config # Pending
     /\ config.bytes = None
     /\ config.lines.tag = "TakeNum"
     /\ config.lines.num < 0
     /\ Regular(i))
    => LET ls == RefLines(files[i].content)
           expected == from_utf8_lossy(Flatten(LastN(ls, Min(-config.lines.num, Len(ls)))))
       IN /\ IsPrefix(written[i], expected)
          /\ (FileDone(i) => written[i] = expected)

\* Of the two lines "a\n" and "a" the run with -n 1 has written the last one,
\* which has no terminator.
C11_Witness ==
  /\ pc = "exit"
  /\ files = <<File("file", <<"a", "\n", "a">>)>>
  /\ config # Pending
  /\ config.bytes = None
  /\ config.lines = TakeNum(-1)
  /\ written[1] = <<"a">>

\* C12: in byte mode with Count(+n), 1 <= n <= B, the output for a file of B
\* bytes is the file from zero-based offset n - 1 to its end, B - n + 1 bytes.
C12_ByteModeFromStart ==
  \A i \in 1..num_files :
    (/\ config # Pending
     /\ config.bytes # None
     /\ config.bytes.k.tag = "TakeNum"
     /\ config.bytes.k.num >= 1
     /\ config.bytes.k.num <= Len(files[i].content)
     /\ Regular(i)
     /\ FileDone(i))
    => /\ written[i] = SubSeq(files[i].content, config.bytes.k.num, Len(files[i].content))
       /\ Len(written[i]) = Len(files[i].content) - config.bytes.k.num + 1

\* C13: in byte mode the bytes written for a file are the file's bytes from
\* the start offset to the end of the file, whatever their values.
C13_ByteModeVerbatim ==
  (/\ pc = "end_file"
   /\ config.bytes # None
   /\ start.tag = "Some")
  => written[path] = SubSeq(cur.content, start.k + 1, Len(cur.content))

\* C14: for an empty file the selector returns None whatever the
\* take-specification, nothing is written for it and no error is raised, in
\* line mode and in byte mode.
C14_EmptyFile ==
  \A i \in 1..num_files :
    (Regular(i) /\ files[i].content = <<>>)
    => /\ written[i] = <<>>
       /\ ~Diagnosed(i)
       /\ ~(IoFailed /\ files[i].kind = "file" /\ result.error[2] = i)
       /\ ((i = path /\ pc \in {"print_read", "end_file", "panic"}) => start = None)
       /\ ((FileDone(i) /\ num_files = 1 /\ files[i].kind = "file" /\ pc = "exit")
             => result = Ok("unit"))

\* The selector has returned None for an empty file in byte mode with a
\* positive count.
C14_Witness ==
  /\ pc = "end_file"
  /\ cur = File("file", <<>>)
  /\ config.bytes = Some(TakeNum(1))
  /\ take_val = TakeNum(1)
  /\ total = 0
  /\ start = None
  /\ out = <<>>

\* C15 as stated: in a run over more than one file without the quiet flag, a
\* header is written immediately before the output of each processed file,
\* preceded by a blank line (an empty line of the output) for every file
\* after the first and by nothing for the first.
C15_Original ==
  (config # Pending /\ num_files > 1 /\ ~config.quiet) =>
    /\ \A i \in 1..num_files : Headed(i) <=> (Opened(i) /\ ~(i = path /\ pc = "header"))
    /\ out = Sections
    /\ \A p \in 1..Len(out) :
         /\ (out[p] = HeaderLine(1) => p = 1)
         /\ ((\E i \in 2..num_files : out[p] = HeaderLine(i)) =>
               /\ p >= 2
               /\ out[p - 1] = Byte("\n")
               /\ (p = 2 \/ out[p - 2] = Byte("\n")
                         \/ \E j \in 1..num_files : out[p - 2] = HeaderLine(j)))

\* C15 amended: in a run over more than one file without the quiet flag, a
\* header is written immediately before the output of each processed file,
\* preceded by a newline character for every file after the first of the list
\* and by nothing for the first (the newline is a blank line only when the
\* output before it is empty or ends in a newline).
C15_Amended ==
  (config # Pending /\ num_files > 1 /\ ~config.quiet) =>
    /\ \A i \in 1..num_files : Headed(i) <=> (Opened(i) /\ ~(i = path /\ pc = "header"))
    /\ out = Sections
    /\ \A p \in 1..Len(out) :
         /\ (out[p] = HeaderLine(1) => p = 1)
         /\ ((\E i \in 2..num_files : out[p] = HeaderLine(i)) =>
               (p >= 2 /\ out[p - 1] = Byte("\n")))

\* Two files have been written with their headers, the second after a newline.
C15_Witness ==
  /\ pc = "exit"
  /\ result = Ok("unit")
  /\ out = <<HeaderLine(1), Byte("a"), Byte("\n"),
             Byte("\n"), HeaderLine(2), Byte("a"), Byte("\n")>>

\* C16: with the quiet flag set, or with exactly one file, no header is
\* written: the output sink holds the content written for the files and
\* nothing else.
C16_NoHeader ==
  (quiet_arg \/ num_files = 1) =>
    /\ \A i \in 1..num_files : ~Headed(i)
    /\ out = Flatten([i \in 1..num_files |-> ToOut(written[i])])

\* A quiet run over two files has written the content of both and no header.
C16_Witness ==
  /\ pc = "exit"
  /\ quiet_arg
  /\ num_files = 2
  /\ written[1] # <<>>
  /\ written[2] # <<>>
  /\ out = ToOut(written[1] \o written[2])

\* C17: a file that fails to open (not found, is a directory) gets one
\* diagnostic in the error sink and nothing in the output sink, every later
\* file is still processed and the run ends successfully.
C17_OpenFailureLocal ==
  (pc = "exit" /\ config # Pending) =>
    \A i \in 1..num_files :
      files[i].kind \in {"missing", "dir"} =>
        /\ Cardinality({p \in 1..Len(err) : err[p].path = i}) = 1
        /\ ~Headed(i)
        /\ written[i] = <<>>
        /\ file_num = num_files
        /\ result = Ok("unit")

\* C18: after an I/O error while a file is read, that file is abandoned and
\* the run goes on with the next file: at the end of the run every file of the
\* list has been visited.
C18_ContinueAfterIoError ==
  (pc = "exit" /\ config # Pending) =>
    \A j \in 1..num_files : j <= file_num \/ (j = path /\ IoFailed)

\* C19: a malformed -n or -c value ends the invocation with
\* 'illegal line count -- <string>' or 'illegal byte count -- <string>' before
\* any file is opened or read and before anything is written.
C19_MalformedCountFirst ==
  LET bad_lines == ~MatchesGrammar(lines_arg)
      bad_bytes == bytes_arg # None /\ ~MatchesGrammar(bytes_arg.k)
  IN (bad_lines \/ bad_bytes) =>
       /\ pc \in {"get_args", "exit"}
       /\ config = Pending
       /\ handles = {}
       /\ out = <<>>
       /\ err = <<>>
       /\ file_num = 0
       /\ (pc = "exit" =>
             result = IF bad_lines THEN Err(<<"illegal line count -- ", lines_arg>>)
                      ELSE Err(<<"illegal byte count -- ", bytes_arg.k>>))

\* The invocation with -c f has ended with the byte-count error.
C19_Witness ==
  /\ pc = "exit"
  /\ bytes_arg = Some(<<"f">>)
  /\ result = Err(<<"illegal byte count -- ", <<"f">>>>)
  /\ files # <<>>

\* C20: when the next file is about to be opened, and when run has returned
\* (normally or with an error), no handle is open; at any time the open
\* handles are handles on the file being processed.
C20_HandlesReleased ==
  /\ \A h \in handles : h.file = path
  /\ (pc \in {"get_args", "open", "exit"} => handles = {})

\* The second file is about to be opened after the first has been read and
\* written; no handle is open.
C20_Witness ==
  /\ pc = "open"
  /\ file_num = 1
  /\ num_files = 2
  /\ written[1] # <<>>
  /\ handles = {}

\* ------------------------------------------------------------------ claims: order, termination, frame

\* C21: the output stays in file order: the sink is at every moment the
\* sections of the files in list order, one after the other; a step only
\* appends to the sink, only for the file being processed, and the file being
\* processed never moves back in the list.
C21_FileOrder ==
  /\ [](out = Sections)
  /\ [][/\ IsPrefix(out, out')
        /\ file_num' >= file_num
        /\ \A i \in 1..num_files :
             (i # path) => (written'[i] = written[i] /\ (Headed(i)' <=> Headed(i)))]_vars

\* Two files have both produced output and run has returned: the section of
\* the first, then the section of the second.
C21_Witness ==
  /\ pc = "exit"
  /\ out = <<HeaderLine(1), Byte("a"), Byte("\n"), HeaderLine(2), Byte("a"), Byte("\n")>>
  /\ written = <<(<<"a">>), <<"a", "\n">>>>

\* C22: every run comes to its end; the counting loop and the streaming loop
\* never go past the end of the stream, and no file is scanned more than twice,
\* once by the counting pass and once by the streaming pass.
C22_Terminates ==
  /\ <>(pc = "exit")
  /\ [](\A i \in 1..num_files : scans[i].count <= 1 /\ scans[i].stream <= 1)
  /\ [](pc = "count_read" =>
          (file_pos <= Len(cur.content) /\ num_lines <= Len(cur.content)))
  /\ [](pc = "print_read" =>
          (file_pos <= Len(cur.content) /\ line_num <= num_lines))

\* run has returned Ok after the last of two files, each scanned by one
\* counting pass and one streaming pass.
C22_Witness ==
  /\ pc = "exit"
  /\ result = Ok("unit")
  /\ num_files = 2
  /\ \A i \in 1..num_files : scans[i] = [count |-> 1, stream |-> 1]

\* C23: when the counting pass returns, total_bytes is the length of the file
\* and total_lines is the number of newline bytes, plus one if the file is not
\* empty and does not end with a newline.
C23_CountTotals ==
  pc = "print" =>
    LET c == cur.content
        newlines == Cardinality({i \in 1..Len(c) : c[i] = "\n"})
        fragment == IF c # <<>> /\ c[Len(c)] # "\n" THEN 1 ELSE 0
    IN num_bytes = Len(c) /\ num_lines = newlines + fragment

\* A file of one terminated line and an unterminated fragment has been
\* counted: 2 lines, 3 bytes.
C23_Witness ==
  /\ pc = "print"
  /\ cur.content = <<"a", "\n", "a">>
  /\ num_lines = 2
  /\ num_bytes = 3

\* C24: when get_start_index returns None, print_bytes and print_lines leave
\* everything as it is: the handle stays at offset 0 (no seek, no read), no
\* streaming pass begins, and nothing is written.
C24_NoneLeavesUnchanged ==
  [][(pc = "print" /\ start' = None) =>
       /\ out' = out
       /\ written' = written
       /\ err' = err
       /\ file_pos' = 0
       /\ file_pos' = file_pos
       /\ scans' = scans
       /\ handles' = handles
       /\ pc' = "end_file"]_vars

\* Byte mode with a count of 0 over a file that has content: the selector has
\* returned None and the file is finished with nothing read or written.
C24_Witness ==
  /\ pc = "end_file"
  /\ start = None
  /\ config.bytes = Some(TakeNum(0))
  /\ cur.content # <<>>
  /\ written[path] = <<>>
  /\ file_pos = 0
  /\ scans[path] = [count |-> 1, stream |-> 0]

\* C27: in a run over several files without the quiet flag, the first thing
\* in the output sink is a header, not the newline that separates sections,
\* also when files earlier in the list failed to open.
C27_NoLeadingBlankLine ==
  (config # Pending /\ num_files > 1 /\ ~config.quiet /\ out # <<>>) =>
    out[1] \in {HeaderLine(i) : i \in 1..num_files}

\* ------------------------------------------------------------------ claims: taking from the end

IsSuffix(a, b) == Len(a) <= Len(b) /\ SubSeq(b, Len(b) - Len(a) + 1, Len(b)) = a

\* File i has been processed to its end in line mode with a count from the end.
FromEndDone(i) ==
  /\ config # Pending
  /\ config.bytes = None
  /\ config.lines.tag = "TakeNum"
  /\ config.lines.num < 0
  /\ Regular(i)
  /\ FileDone(i)

\* C29 as stated: the output under Count(-k), k >= 1, is a suffix of the output
\* under Count(-(k+1)), and once k >= total > 0 the output is the whole file
\* and stays so under Count(-(k+1)).
C29_Original ==
  \A i \in 1..num_files :
    FromEndDone(i) =>
      LET k == -config.lines.num
          c == files[i].content
          T == count_lines_bytes(c, 0)[1]
          more == print_lines(c, TakeNum(-(k + 1)))
      IN /\ written[i] = print_lines(c, TakeNum(-k))
         /\ IsSuffix(written[i], more)
         /\ (T > 0 /\ k >= T) => (written[i] = c /\ more = c)

\* C29 amended: the output under Count(-k), k >= 1, is a suffix of the output
\* under Count(-(k+1)), and once k >= total > 0 the output is the lossy UTF-8
\* decoding of the whole file (the file itself when it is valid UTF-8) and
\* stays so under Count(-(k+1)).
C29_Amended ==
  \A i \in 1..num_files :
    FromEndDone(i) =>
      LET k == -config.lines.num
          c == files[i].content
          T == count_lines_bytes(c, 0)[1]
          more == print_lines(c, TakeNum(-(k + 1)))
      IN /\ written[i] = print_lines(c, TakeNum(-k))
         /\ IsSuffix(written[i], more)
         /\ (T > 0 /\ k >= T) =>
              (written[i] = from_utf8_lossy(c) /\ more = from_utf8_lossy(c))

\* The last 3 lines of a file of 2 lines have been taken: the whole file.
C29_Witness ==
  /\ pc = "exit"
  /\ num_files = 1
  /\ files[1] = File("file", <<"a", "\n", "a">>)
  /\ config # Pending
  /\ config.bytes = None
  /\ config.lines = TakeNum(-3)
  /\ written[1] = <<"a", "\n", "a">>

====
